---- MODULE Spec2Model ----
(***************************************************************************)
(* A model of the search route of websurfx (src/server/routes/search.rs):  *)
(* the `search` handler, the `results` resolver it fans out to, the        *)
(* blocklist helper `is_match_from_filter_list` and `get_safesearch_level`.*)
(* The shared cache, the aggregator and the blocklist file are the         *)
(* collaborators the handler talks to; their answers are nondeterministic. *)
(***************************************************************************)
EXTENDS Integers, Sequences, FiniteSets, TLC

VARIABLES
    client,     \* the client of this behaviour: its query, safesearch parameter, cookie
    upstream,   \* what the upstream engines hold for the client's query
    cache,      \* the shared cache: a function from cache keys to bundles
    req,        \* the request being handled by `search`
    calls,      \* the `results` futures joined by the request, one per slot
    bg,         \* detached tokio tasks that still have to run cache_results
    nreq,       \* number of requests received so far
    fresh,      \* history: keys written back by a resolver and not evicted since
    failed,     \* history: the slot of the current fan-out that failed first
    lvl,        \* inputs and output of one get_safesearch_level evaluation
    chk         \* inputs and output of one is_match_from_filter_list evaluation

vars == <<client, upstream, cache, req, calls, bg, nreq, fresh, failed, lvl, chk>>

-----------------------------------------------------------------------------
(* Option<T>: None is the empty sequence, Some(v) a one-element sequence.  *)
NoneV == <<>>
Some(v) == <<v>>
IsSome(o) == Len(o) = 1
Unwrap(o) == o[1]
UnwrapOr(o, d) == IF IsSome(o) THEN o[1] ELSE d

(* Bounds of the model. *)
MaxPageParam == 2   \* largest `page` url parameter a request carries
MaxRequests == 2    \* number of requests handled in one behaviour
MaxRules == 3       \* largest number of lines of a blocklist file checked on its own

(* Program constants. *)
StrictLevel == 4        \* `safe_search_level == 4`
UrlLevelCutoff == 3     \* `*url_level >= 3`
DefaultPageParam == 1   \* `params.page.unwrap_or(1)` and `.max(1)`

Levels == 0..4

Max(a, b) == IF a >= b THEN a ELSE b

-----------------------------------------------------------------------------
GetSafesearchLevelStrict(cookie_level, url_level, config_level) ==
    IF IsSome(url_level)
    THEN IF Unwrap(url_level) > UrlLevelCutoff
         THEN config_level
         ELSE Unwrap(url_level)
    ELSE UnwrapOr(cookie_level, config_level)

(* get_safesearch_level, src/server/routes/search.rs:282-293 *)
GetSafesearchLevel(cookie_level, url_level, config_level) ==
    IF IsSome(url_level)
    THEN IF Unwrap(url_level) >= UrlLevelCutoff
         THEN config_level
         ELSE Unwrap(url_level)
    ELSE UnwrapOr(cookie_level, config_level)

-----------------------------------------------------------------------------
(* The server configuration the handler receives (web::Data<Config>).      *)
Config ==
    [ binding_ip |-> "127.0.0.1",
      port |-> 8080,
      safe_search |-> 1,
      upstream_search_engines |->
          << [engine |-> "duckduckgo", enabled |-> TRUE],
             [engine |-> "brave", enabled |-> FALSE],
             [engine |-> "searx", enabled |-> TRUE] >> ]

(* `.iter().filter_map(|(engine, enabled)| enabled.then_some(..)).collect()` *)
RECURSIVE EnabledEngines(_)
EnabledEngines(es) ==
    IF es = <<>> THEN <<>>
    ELSE IF es[1].enabled
         THEN <<es[1].engine>> \o EnabledEngines(Tail(es))
         ELSE EnabledEngines(Tail(es))

(* server_models::Cookie::build(&config.style, engines, config.search.safe_search) *)
CookieBuild ==
    [ engines |-> EnabledEngines(Config.upstream_search_engines),
      safe_search_level |-> Config.safe_search ]

(* What `cookie.and_then(|v| serde_json::from_str(v.value()).ok())` gives  *)
(* for the appCookie of a client: None (no cookie, or one that does not    *)
(* parse), or the settings it holds.                                       *)
CookieEngines == { <<>>, <<"duckduckgo">> }
CookieLevels == {4}
Cookies ==
    { NoneV } \cup
    { Some([engines |-> e, safe_search_level |-> l]) :
          e \in CookieEngines, l \in CookieLevels }

(* `.unwrap_or_else(|| server_models::Cookie::build(..))` *)
SearchSettings(cookie) == UnwrapOr(cookie, CookieBuild)

-----------------------------------------------------------------------------
(* SearchResults (models::aggregation_models): the bundle.                 *)
DefaultResults ==
    [ results |-> <<>>,
      engine_errors_info |-> <<>>,
      disallowed |-> FALSE,
      filtered |-> FALSE,
      no_engines_selected |-> FALSE,
      safe_search_level |-> 0 ]

SetDisallowed(r) == [r EXCEPT !.disallowed = TRUE]
SetFiltered(r) == [r EXCEPT !.filtered = TRUE]
SetNoEnginesSelected(r) == [r EXCEPT !.no_engines_selected = TRUE]
SetSafeSearchLevel(r, level) == [r EXCEPT !.safe_search_level = level]

(* `search_settings.engines.join(",")` *)
RECURSIVE JoinComma(_)
JoinComma(es) ==
    IF es = <<>> THEN ""
    ELSE IF Len(es) = 1 THEN es[1]
    ELSE es[1] \o "," \o JoinComma(Tail(es))

(* The `format!` of the cache key, src/server/routes/search.rs:171-179 *)
CacheKey(query, page, safe_search_level, engines) ==
    "http://" \o Config.binding_ip \o ":" \o ToString(Config.port)
        \o "/search?q=" \o query
        \o "&page=" \o ToString(page)
        \o "&safesearch=" \o ToString(safe_search_level)
        \o "&engines=" \o JoinComma(engines)

-----------------------------------------------------------------------------
(* The blocklist: one regular expression per line.  A line either fails   *)
(* to compile or matches the queries of its language.                     *)
Queries == {"bad", "ok"}
BlankQueries == {"", "  "}

RegexCompiles(line) == line # "("
RegexIsMatch(line, query) ==
    \/ line = "bad" /\ query = "bad"
    \/ line = "b.d" /\ query = "bad"

BlockFiles ==
    { NoneV, Some(<<"bad">>), Some(<<"xyz", "b.d", "(">>) }

MatchLinesCompiledUpFront(lines, query) ==
    IF \E i \in DOMAIN lines : ~RegexCompiles(lines[i]) THEN "err"
    ELSE IF \E i \in DOMAIN lines : RegexIsMatch(lines[i], query) THEN "true"
    ELSE "false"

(* The loop of is_match_from_filter_list over the lines that are left:    *)
(* "err" is `Regex::new(&line?)?` failing, "true" the early return.       *)
RECURSIVE MatchLines(_, _)
MatchLines(lines, query) ==
    IF lines = <<>> THEN "false"
    ELSE IF ~RegexCompiles(lines[1]) THEN "err"
    ELSE IF RegexIsMatch(lines[1], query) THEN "true"
    ELSE MatchLines(Tail(lines), query)

(* is_match_from_filter_list: `File::open(file_path)?`, then the loop.    *)
IsMatchFromFilterList(file, query) ==
    IF ~IsSome(file) THEN "err" ELSE MatchLines(Unwrap(file), query)

(* `let flag: bool = !is_match_from_filter_list(..)?;` for an Ok answer.  *)
Flag(answer) == ~(answer = "true")

-----------------------------------------------------------------------------
(* results::aggregator::aggregate: an upstream error, or the bundle the   *)
(* upstream engines hold: with or without results, with or without        *)
(* per-engine errors.  What they hold stays the same during a behaviour;  *)
(* whether a call fails is decided call by call.                          *)
UpstreamKinds ==
    { [has_results |-> r, has_errors |-> e] : r \in BOOLEAN, e \in BOOLEAN }

ResultEntry(query, page, level, engines) ==
    [query |-> query, page |-> page, safe_search |-> level, engines |-> engines]

(* EngineHandler::new(name): Ok for the names of the engines there are.   *)
KnownEngines == {"duckduckgo", "brave", "searx"}

(* results, lines 215-219: `.filter_map(|engine| EngineHandler::new(engine) *)
(* .ok())` drops the selected names that are no engine.                    *)
EngineHandlers(engines) == SelectSeq(engines, LAMBDA e : e \in KnownEngines)

(* With no handler left there is no engine to answer or to fail.           *)
AggregateOutcomes(query, page, handlers, level) ==
    { [ok |-> FALSE, results |-> DefaultResults],
      [ok |-> TRUE,
       results |-> [DefaultResults EXCEPT
           !.results = IF upstream.has_results /\ handlers # <<>>
                       THEN <<ResultEntry(query, page, level, handlers)>>
                       ELSE <<>>,
           !.engine_errors_info = IF upstream.has_errors /\ handlers # <<>>
                                  THEN <<"timeout">> ELSE <<>>]] }

(* SharedCache::cached_results(&key): Ok(bundle) only for a stored key,   *)
(* and a read of a stored key may fail; the caller sees a failed read and  *)
(* a missing key alike, as Err(_).                                        *)
CachedResultsOutcomes(key) ==
    IF key \in DOMAIN cache
    THEN { [ok |-> TRUE, why |-> "hit", results |-> cache[key]],
           [ok |-> FALSE, why |-> "error", results |-> DefaultResults] }
    ELSE { [ok |-> FALSE, why |-> "miss", results |-> DefaultResults] }

(* SharedCache::cache_results(&results, &keys) succeeding: every pair is  *)
(* stored, later pairs overwriting earlier ones on the same key.          *)
RECURSIVE CachePut(_, _, _)
CachePut(c, results, keys) ==
    IF results = <<>> \/ keys = <<>> THEN c
    ELSE CachePut(
             [k \in DOMAIN c \cup {keys[1]} |->
                 IF k = keys[1] THEN results[1] ELSE c[k]],
             Tail(results), Tail(keys))

-----------------------------------------------------------------------------
(* One `results(config, cache, query, page, search_settings)` future.     *)
Slots == {"previous", "current", "next"}

UnusedCall ==
    [ pc |-> "unused", page |-> 0, key |-> "", results |-> DefaultResults,
      err |-> "", read |-> "", gate |-> "", path |-> "", warm |-> FALSE,
      reads |-> 0, writes |-> 0, aggs |-> 0, filter_checks |-> 0 ]

(* results, lines 168-182: the key is built and the cache read is issued. *)
(* `warm` is history: an earlier resolver wrote this key back and the     *)
(* store has not dropped it since.                                        *)
ResultsStart(query, page, settings, written) ==
    LET key == CacheKey(query, page, settings.safe_search_level, settings.engines)
    IN  [ UnusedCall EXCEPT
            !.pc = "read", !.page = page, !.key = key,
            !.warm = key \in written, !.reads = 1 ]

NormaliseIgnoringEngines(r) ==
    IF r.engine_errors_info = <<>> /\ r.results = <<>>
    THEN SetFiltered(r)
    ELSE r

(* results, lines 231-239: mark an empty error-free bundle as filtered and *)
(* issue the write-back of the bundle.                                     *)
Normalise(r) ==
    IF r.engine_errors_info = <<>> /\ r.results = <<>> /\ ~r.no_engines_selected
    THEN SetFiltered(r)
    ELSE r

IssueWrite(c, r, path) ==
    [c EXCEPT !.pc = "write", !.results = r, !.path = path, !.writes = @ + 1]

Fail(c, kind) == [c EXCEPT !.pc = "err", !.err = kind, !.results = DefaultResults]

SelectEnginesNoFlag(c, settings) ==
    IF settings.engines = <<>>
    THEN IssueWrite(c, Normalise(DefaultResults), "no_engines")
    ELSE [c EXCEPT !.pc = "aggregate", !.path = "aggregated", !.aggs = @ + 1]

(* results, lines 208-236: the engine-set match.                           *)
SelectEngines(c, settings) ==
    IF settings.engines = <<>>
    THEN IssueWrite(c, Normalise(SetNoEnginesSelected(DefaultResults)), "no_engines")
    ELSE [c EXCEPT !.pc = "aggregate", !.path = "aggregated", !.aggs = @ + 1]

(* results, line 188: `if safe_search_level == 4` *)
GateAppliesAlways(level) == TRUE
GateApplies(level) == level = StrictLevel

SafeSearchGateFallsThrough(c, query, settings, file) ==
    IF GateApplies(settings.safe_search_level)
    THEN LET answer == IsMatchFromFilterList(file, query)
             c1 == [c EXCEPT !.filter_checks = @ + 1, !.gate = answer]
         IN  IF answer = "err" THEN Fail(c1, "FilterRuleError")
             ELSE IF Flag(answer)
                  THEN SelectEngines(
                           IssueWrite(c1, SetDisallowed(DefaultResults), "disallowed"),
                           settings)
                  ELSE SelectEngines(c1, settings)
    ELSE SelectEngines(c, settings)

(* results, lines 188-202: the gate of the strictest level.                *)
SafeSearchGate(c, query, settings, file) ==
    IF GateApplies(settings.safe_search_level)
    THEN LET answer == IsMatchFromFilterList(file, query)
             c1 == [c EXCEPT !.filter_checks = @ + 1, !.gate = answer]
         IN  IF answer = "err" THEN Fail(c1, "FilterRuleError")
             ELSE IF Flag(answer)
                  THEN IssueWrite(c1, SetDisallowed(DefaultResults), "disallowed")
                  ELSE SelectEngines(c1, settings)
    ELSE SelectEngines(c, settings)

AfterReadStampsHit(c, out, query, settings, file) ==
    IF out.ok
    THEN [c EXCEPT !.pc = "ok",
                   !.results = SetSafeSearchLevel(out.results,
                                                  settings.safe_search_level),
                   !.read = "hit", !.path = "hit"]
    ELSE SafeSearchGate([c EXCEPT !.read = out.why], query, settings, file)

AfterReadFatal(c, out, query, settings, file) ==
    IF out.ok
    THEN [c EXCEPT !.pc = "ok", !.results = out.results,
                   !.read = "hit", !.path = "hit"]
    ELSE IF out.why = "error"
         THEN Fail([c EXCEPT !.read = out.why], "CacheError")
         ELSE SafeSearchGate([c EXCEPT !.read = out.why], query, settings, file)

(* results, lines 185-187: the match on the answer of the cache read.      *)
AfterRead(c, out, query, settings, file) ==
    IF out.ok
    THEN [c EXCEPT !.pc = "ok", !.results = out.results,
                   !.read = "hit", !.path = "hit"]
    ELSE SafeSearchGate([c EXCEPT !.read = out.why], query, settings, file)

(* results, lines 223-236: the answer of `aggregate(..).await?`.           *)
AfterAggregate(c, out) ==
    IF out.ok
    THEN IssueWrite(c, Normalise(out.results), "aggregated")
    ELSE Fail(c, "UpstreamError")

AfterWriteSwallowsFailure(c, ok, settings) ==
    [c EXCEPT !.pc = "ok",
              !.results = SetSafeSearchLevel(@, settings.safe_search_level)]

(* results, lines 196-200 and 237-241: the answer of the write-back.       *)
AfterWrite(c, ok, settings) ==
    IF ok
    THEN [c EXCEPT !.pc = "ok",
                   !.results = SetSafeSearchLevel(@, settings.safe_search_level)]
    ELSE Fail(c, "CacheError")

-----------------------------------------------------------------------------
(* The `search` handler.                                                   *)
NoError == [slot |-> "", kind |-> ""]
NoResponse ==
    [status |-> 0, error |-> NoError, query |-> "", results |-> DefaultResults]
Redirect == [NoResponse EXCEPT !.status = 307]
ErrorResponse(slot, kind) ==
    [NoResponse EXCEPT !.status = 500, !.error = [slot |-> slot, kind |-> kind]]
OkResponse(query, results) ==
    [NoResponse EXCEPT !.status = 200, !.query = query, !.results = results]

IdleRequest ==
    [ pc |-> "idle", query |-> "", page_param |-> NoneV, page |-> 0,
      previous_page |-> 0, next_page |-> 0,
      settings |-> CookieBuild, slots |-> {}, resp |-> NoResponse ]

(* The url parameters a request of the client carries: no `q`, a blank    *)
(* one, or the client's query.                                             *)
QueryParams == { NoneV } \cup { Some(q) : q \in BlankQueries \cup {client.q} }
PageParams == { NoneV } \cup { Some(p) : p \in 0..MaxPageParam }
UrlLevels == {2, 3}
SafesearchParams == { NoneV } \cup { Some(l) : l \in UrlLevels }

TrimIsEmptyUntrimmed(query) == query = ""

(* `query.trim().is_empty()` *)
TrimIsEmpty(query) == query \in BlankQueries

(* lines 45-47 and 140: `Some(query)` with a query that is not blank is   *)
(* the one case that is searched.                                          *)
IsEmptyQuery(q) == IF IsSome(q) THEN TrimIsEmpty(Unwrap(q)) ELSE TRUE

(* lines 83-85 *)
CurrentPage(page_param) == Max(UnwrapOr(page_param, DefaultPageParam), 1) - 1
SaturatingSub(page, n) == Max(page - n, 0)
PreviousPage(page) == SaturatingSub(page, 1)
NextPage(page) == page + 1

LaunchedAlwaysThree(page, previous_page) == {"previous", "current", "next"}

(* lines 88-93 and 114-115: the futures handed to join!.                   *)
Launched(page, previous_page) ==
    IF page # previous_page THEN {"previous", "current", "next"}
    ELSE {"current", "next"}

SlotPage(slot, page, previous_page, next_page) ==
    IF slot = "previous" THEN previous_page
    ELSE IF slot = "current" THEN page
    ELSE next_page

(* lines 94-95, 110 and 117-119: the order in which `?` looks at the      *)
(* answers once join! has returned all of them.                            *)
QuestionMarkCurrentOnly(page, previous_page) == <<"current">>
QuestionMarkInPageOrder(page, previous_page) ==
    IF page # previous_page THEN <<"previous", "current", "next">>
    ELSE <<"current", "next">>
QuestionMarkOrder(page, previous_page) ==
    IF page # previous_page THEN <<"previous", "next", "current">>
    ELSE <<"next", "current">>

RECURSIVE FirstErr(_, _)
FirstErr(order, cs) ==
    IF order = <<>> THEN NoneV
    ELSE IF cs[order[1]].pc = "err" THEN Some(order[1])
    ELSE FirstErr(Tail(order), cs)

(* lines 97-108 and 121-124: the arrays handed to the detached task.  In  *)
(* the three page branch `results` still is the default pair there.        *)
BatchKeys(page, previous_page, cs) ==
    IF page # previous_page
    THEN <<cs["previous"].key, "", cs["next"].key>>
    ELSE <<cs["current"].key, cs["next"].key>>

BatchResults(page, previous_page, cs) ==
    IF page # previous_page
    THEN <<cs["previous"].results, DefaultResults, cs["next"].results>>
    ELSE <<cs["current"].results, cs["next"].results>>

-----------------------------------------------------------------------------
NoFilterCheck == [file |-> NoneV, query |-> "", done |-> FALSE, out |-> ""]
NoLevelEval == [cookie_level |-> NoneV, url_level |-> NoneV, config_level |-> 0,
                done |-> FALSE, out |-> 0]

(* A behaviour follows one client: the query, the safesearch parameter    *)
(* and the cookie stay the same from request to request, the page changes.*)
Clients == [q : Queries, safesearch : SafesearchParams, cookie : Cookies]

Init ==
    /\ client \in Clients
    /\ upstream \in UpstreamKinds
    /\ cache = <<>>
    /\ req = IdleRequest
    /\ calls = [s \in Slots |-> UnusedCall]
    /\ bg = {}
    /\ nreq = 0
    /\ fresh = {}
    /\ failed = NoneV
    /\ lvl = NoLevelEval
    /\ chk = NoFilterCheck

(* search, line 44: the query string does not parse.                      *)
ReceiveMalformed ==
    /\ req.pc = "idle"
    /\ nreq < MaxRequests
    /\ nreq' = nreq + 1
    /\ req' = [IdleRequest EXCEPT !.pc = "done",
                                  !.resp = ErrorResponse("", "QueryParseError")]
    /\ calls' = [s \in Slots |-> UnusedCall]
    /\ failed' = NoneV
    /\ UNCHANGED <<client, upstream, cache, bg, fresh, lvl, chk>>

(* search, lines 45-51 and 140-143: no query, or a blank one.              *)
ReceiveEmpty ==
    /\ req.pc = "idle"
    /\ nreq < MaxRequests
    /\ \E q \in QueryParams :
          /\ IsEmptyQuery(q)
          /\ req' = [IdleRequest EXCEPT !.pc = "done",
                                        !.query = UnwrapOr(q, ""),
                                        !.resp = Redirect]
    /\ nreq' = nreq + 1
    /\ calls' = [s \in Slots |-> UnusedCall]
    /\ failed' = NoneV
    /\ UNCHANGED <<client, upstream, cache, bg, fresh, lvl, chk>>

(* search, lines 53-93 and 114-115: settings, pages, and the fan-out.      *)
ReceiveSearch ==
    /\ req.pc = "idle"
    /\ nreq < MaxRequests
    /\ \E qp \in QueryParams, pp \in PageParams :
          /\ ~IsEmptyQuery(qp)
          /\ LET q == Unwrap(qp)
                 cookie == SearchSettings(client.cookie)
                 settings == [cookie EXCEPT !.safe_search_level =
                                 GetSafesearchLevel(Some(cookie.safe_search_level),
                                                    client.safesearch,
                                                    Config.safe_search)]
                 page == CurrentPage(pp)
                 previous_page == PreviousPage(page)
                 next_page == NextPage(page)
                 slots == Launched(page, previous_page)
             IN  /\ req' = [IdleRequest EXCEPT
                               !.pc = "fanout", !.query = q, !.page_param = pp,
                               !.page = page, !.previous_page = previous_page,
                               !.next_page = next_page,
                               !.settings = settings, !.slots = slots]
                 /\ calls' = [s \in Slots |->
                               IF s \in slots
                               THEN ResultsStart(q, SlotPage(s, page, previous_page,
                                                             next_page),
                                                 settings, fresh)
                               ELSE UnusedCall]
    /\ nreq' = nreq + 1
    /\ failed' = NoneV
    /\ UNCHANGED <<client, upstream, cache, bg, fresh, lvl, chk>>

(* `cache.cache_results(&[results.clone()], &[cache_key.clone()])` done.   *)
WriteBackUnlessDisallowed(store, c) ==
    IF c.path = "disallowed" THEN store
    ELSE CachePut(store, <<c.results>>, <<c.key>>)
WriteBack(store, c) == CachePut(store, <<c.results>>, <<c.key>>)

(* `tokio::spawn(..)`: the JoinHandle is dropped, so whatever the task    *)
(* returns reaches nobody; the request stays as it is.                    *)
AwaitJoinHandle(r, t, ok) ==
    IF ~ok /\ r.pc = "done" /\ r.resp.status = 200
    THEN [r EXCEPT !.resp = ErrorResponse("", "CacheError")]
    ELSE r
DropJoinHandle(r, t, ok) == r

Step(s, c) ==
    /\ calls' = [calls EXCEPT ![s] = c]
    /\ failed' = IF c.pc = "err" /\ ~IsSome(failed) THEN Some(s) ELSE failed

(* results, lines 182-236: the cache read answers and the future runs on   *)
(* to its next await; `file` is the blocklist file as the gate finds it.   *)
CallRead(s) ==
    /\ req.pc = "fanout"
    /\ calls[s].pc = "read"
    /\ \E out \in CachedResultsOutcomes(calls[s].key), file \in BlockFiles :
          Step(s, AfterRead(calls[s], out, req.query, req.settings, file))
    /\ UNCHANGED <<client, upstream, cache, req, bg, nreq, fresh, lvl, chk>>

(* results, lines 210-239: the aggregator answers.                         *)
CallAggregate(s) ==
    /\ req.pc = "fanout"
    /\ calls[s].pc = "aggregate"
    /\ \E out \in AggregateOutcomes(req.query, calls[s].page,
                                    EngineHandlers(req.settings.engines),
                                    req.settings.safe_search_level) :
          Step(s, AfterAggregate(calls[s], out))
    /\ UNCHANGED <<client, upstream, cache, req, bg, nreq, fresh, lvl, chk>>

(* results, lines 196-200 and 237-241: the write-back answers.             *)
CallWrite(s) ==
    /\ req.pc = "fanout"
    /\ calls[s].pc = "write"
    /\ \E ok \in BOOLEAN :
          /\ Step(s, AfterWrite(calls[s], ok, req.settings))
          /\ cache' = IF ok THEN WriteBack(cache, calls[s]) ELSE cache
          /\ fresh' = IF ok THEN fresh \cup {calls[s].key} ELSE fresh
    /\ UNCHANGED <<client, upstream, req, bg, nreq, lvl, chk>>

(* search, lines 94-138: join! has every answer; the `?`s, the detached   *)
(* task and the response.                                                  *)
JoinReturns ==
    /\ req.pc = "fanout"
    /\ \A s \in req.slots : calls[s].pc \in {"ok", "err"}
    /\ LET e == FirstErr(QuestionMarkOrder(req.page, req.previous_page), calls)
       IN  IF IsSome(e)
           THEN /\ req' = [req EXCEPT !.pc = "done",
                              !.resp = ErrorResponse(Unwrap(e), calls[Unwrap(e)].err)]
                /\ bg' = bg
           ELSE /\ req' = [req EXCEPT !.pc = "done",
                              !.resp = OkResponse(req.query, calls["current"].results)]
                /\ bg' = bg \cup
                      { [ id |-> nreq,
                          keys |-> BatchKeys(req.page, req.previous_page, calls),
                          results |-> BatchResults(req.page, req.previous_page, calls) ] }
    /\ UNCHANGED <<client, upstream, cache, calls, nreq, fresh, failed, lvl, chk>>

(* search, lines 129-138: the handler returns its response and its        *)
(* futures are dropped.                                                    *)
Return ==
    /\ req.pc = "done"
    /\ req' = IdleRequest
    /\ calls' = [s \in Slots |-> UnusedCall]
    /\ failed' = NoneV
    /\ UNCHANGED <<client, upstream, cache, bg, nreq, fresh, lvl, chk>>

(* The detached task of lines 112 and 126 runs cache_results.              *)
BackgroundWrite ==
    \E t \in bg, ok \in BOOLEAN :
        /\ bg' = bg \ {t}
        /\ cache' = IF ok THEN CachePut(cache, t.results, t.keys) ELSE cache
        /\ req' = DropJoinHandle(req, t, ok)
        /\ UNCHANGED <<client, upstream, calls, nreq, fresh, failed, lvl, chk>>

(* The cache store drops its entries (expiry, restart) between requests.  *)
Evict ==
        /\ req.pc = "idle"
        /\ cache # <<>>
        /\ cache' = <<>>
        /\ fresh' = {}
        /\ UNCHANGED <<client, upstream, req, calls, bg, nreq, failed, lvl, chk>>

Next ==
    \/ ReceiveMalformed
    \/ ReceiveEmpty
    \/ ReceiveSearch
    \/ \E s \in Slots : CallRead(s)
    \/ \E s \in Slots : CallAggregate(s)
    \/ \E s \in Slots : CallWrite(s)
    \/ JoinReturns
    \/ Return
    \/ BackgroundWrite
    \/ Evict

Spec == Init /\ [][Next]_vars

-----------------------------------------------------------------------------
(* get_safesearch_level on its own: every stored level, url level and      *)
(* server default of the level range, then one evaluation.                 *)
OptionalLevels == { NoneV } \cup { Some(l) : l \in Levels }

InitLevel ==
    /\ client \in { c \in Clients : c.q = "ok" /\ c.safesearch = NoneV
                                     /\ c.cookie = NoneV }
    /\ upstream = [has_results |-> TRUE, has_errors |-> FALSE]
    /\ cache = <<>>
    /\ req = IdleRequest
    /\ calls = [s \in Slots |-> UnusedCall]
    /\ bg = {}
    /\ nreq = 0
    /\ fresh = {}
    /\ failed = NoneV
    /\ lvl \in [ cookie_level : OptionalLevels, url_level : OptionalLevels,
                  config_level : Levels, done : {FALSE}, out : {0} ]
    /\ chk = NoFilterCheck

EvalLevel ==
    /\ ~lvl.done
    /\ lvl' = [lvl EXCEPT !.done = TRUE,
                          !.out = GetSafesearchLevel(lvl.cookie_level, lvl.url_level,
                                                     lvl.config_level)]
    /\ UNCHANGED <<client, upstream, cache, req, calls, bg, nreq, fresh, failed, chk>>

SpecLevel == InitLevel /\ [][EvalLevel]_vars

-----------------------------------------------------------------------------
(* is_match_from_filter_list on its own: every blocklist file of up to     *)
(* MaxRules lines, in every order of its lines, and every query, then one  *)
(* evaluation.                                                             *)
RuleLines == {"bad", "b.d", "xyz", "("}
RuleFiles ==
    { NoneV } \cup
    { Some(f) : f \in UNION { [1..n -> RuleLines] : n \in 0..MaxRules } }

InitFilter ==
    /\ client \in { c \in Clients : c.q = "ok" /\ c.safesearch = NoneV
                                     /\ c.cookie = NoneV }
    /\ upstream = [has_results |-> TRUE, has_errors |-> FALSE]
    /\ cache = <<>>
    /\ req = IdleRequest
    /\ calls = [s \in Slots |-> UnusedCall]
    /\ bg = {}
    /\ nreq = 0
    /\ fresh = {}
    /\ failed = NoneV
    /\ lvl = NoLevelEval
    /\ chk \in [ file : RuleFiles, query : Queries, done : {FALSE}, out : {""} ]

EvalFilter ==
    /\ ~chk.done
    /\ chk' = [chk EXCEPT !.done = TRUE,
                          !.out = IsMatchFromFilterList(chk.file, chk.query)]
    /\ UNCHANGED <<client, upstream, cache, req, calls, bg, nreq, fresh, failed, lvl>>

SpecFilter == InitFilter /\ [][EvalFilter]_vars

-----------------------------------------------------------------------------
(* The shared cache under two clients whose engine selections differ and   *)
(* join to the same text: the two engines duckduckgo and searx, and the    *)
(* one name "duckduckgo,searx".  Requests of the two alternate on the one  *)
(* cache.                                                                  *)
CollidingEngines == { <<"duckduckgo", "searx">>, <<"duckduckgo,searx">> }

SharedClient(engines) ==
    [ q |-> "ok", safesearch |-> Some(2),
      cookie |-> Some([engines |-> engines, safe_search_level |-> 4]) ]

InitShared ==
    /\ client \in { SharedClient(e) : e \in CollidingEngines }
    /\ upstream = [has_results |-> TRUE, has_errors |-> FALSE]
    /\ cache = <<>>
    /\ req = IdleRequest
    /\ calls = [s \in Slots |-> UnusedCall]
    /\ bg = {}
    /\ nreq = 0
    /\ fresh = {}
    /\ failed = NoneV
    /\ lvl = NoLevelEval
    /\ chk = NoFilterCheck

(* The next request comes from the other client.                           *)
NextClient ==
    /\ req.pc = "idle"
    /\ \E e \in CollidingEngines :
          /\ SharedClient(e) # client
          /\ client' = SharedClient(e)
    /\ UNCHANGED <<upstream, cache, req, calls, bg, nreq, fresh, failed, lvl, chk>>

NextShared == Next \/ NextClient

SpecShared == InitShared /\ [][NextShared]_vars

-----------------------------------------------------------------------------
(* The properties.                                                         *)
LaunchedCalls == { s \in Slots : calls[s].pc # "unused" }
Searching == req.pc \in {"fanout", "done"} /\ req.query \in Queries
Missed(c) == c.read \in {"miss", "error"}

(* C1: a resolver call that misses the cache at safe search level 4 with a *)
(* query that matches a blocklist rule never invokes the aggregator, and   *)
(* what it returns is a disallowed bundle without results that is in the   *)
(* cache under the call's key.                                             *)
C1_DisallowedOnMatch ==
    \A s \in LaunchedCalls :
        LET c == calls[s]
        IN  (Missed(c) /\ req.settings.safe_search_level = 4 /\ c.gate = "true")
            => /\ c.aggs = 0
               /\ c.pc = "ok" =>
                     /\ c.results.disallowed
                     /\ c.results.results = <<>>
                     /\ c.key \in DOMAIN cache

(* C2: with c = max(p,1) - 1 for the requested page p (absent: 1), the     *)
(* pages resolved by a request are {c, c+1} when c = 0 and {c-1, c, c+1}   *)
(* otherwise, each by one resolver call of its own, with its own key.      *)
C2_FanOutPages ==
    Searching =>
        LET p == IF req.page_param = NoneV THEN 1 ELSE req.page_param[1]
            c == (IF p > 1 THEN p ELSE 1) - 1
            expected == IF c = 0 THEN {c, c + 1} ELSE {c - 1, c, c + 1}
        IN  /\ { calls[s].page : s \in LaunchedCalls } = expected
            /\ Cardinality(LaunchedCalls) = Cardinality(expected)
            /\ \A s, t \in LaunchedCalls : s # t => calls[s].key # calls[t].key
            /\ \A s \in LaunchedCalls : calls[s].reads = 1

C2_ThreePages ==
    /\ req.pc = "done"
    /\ req.page_param = Some(2)
    /\ req.resp.status = 200
    /\ LaunchedCalls = Slots

(* C3: a request that has joined its fan-out answers 200 exactly when      *)
(* every launched resolution succeeded, and answers with an error when any *)
(* of them failed, whatever the current page's resolution did.             *)
C3_AllOrNothing ==
    (req.pc = "done" /\ req.query \in Queries) =>
        /\ LaunchedCalls # {}
        /\ req.resp.status \in {200, 500}
        /\ req.resp.status = 200 <=> \A s \in LaunchedCalls : calls[s].pc = "ok"

C3_CurrentOkNextFails ==
    /\ req.pc = "done"
    /\ calls["current"].pc = "ok"
    /\ calls["next"].pc = "err"
    /\ req.resp.status = 500

(* C4 as claimed: the error a request ends with is the error of the        *)
(* resolution that failed first.                                           *)
C4_FirstErrorWins ==
    (req.pc = "done" /\ req.resp.status = 500 /\ req.resp.error.slot \in Slots) =>
        /\ IsSome(failed)
        /\ req.resp.error.slot = Unwrap(failed)

(* C4 as amended: a request leaves its fan-out only when every launched    *)
(* resolution has completed, and the error it ends with is that of the     *)
(* first failed resolution in the order previous, next, current.           *)
C4_AllJoinedThenFixedOrder ==
    (req.pc = "done" /\ req.query \in Queries) =>
        LET bad == { s \in LaunchedCalls : calls[s].pc = "err" }
            first == IF "previous" \in bad THEN "previous"
                     ELSE IF "next" \in bad THEN "next" ELSE "current"
        IN  /\ \A s \in LaunchedCalls : calls[s].pc \in {"ok", "err"}
            /\ bad # {} =>
                  /\ req.resp.status = 500
                  /\ req.resp.error = [slot |-> first, kind |-> calls[first].err]

C4_LaterFailureReported ==
    /\ req.pc = "done"
    /\ req.resp.status = 500
    /\ IsSome(failed)
    /\ req.resp.error.slot \in Slots
    /\ req.resp.error.slot # Unwrap(failed)

(* C5: the step that ends a successful fan-out produces the 200 response   *)
(* of the current page's bundle with the batched write still to run, and   *)
(* no later step of that write, succeeding or failing, changes the         *)
(* response.                                                               *)
C5_FireAndForget ==
    [][ /\ (req.pc = "done" /\ req'.pc = "done") => req'.resp = req.resp
        /\ ( /\ req.pc = "fanout"
             /\ req'.pc = "done"
             /\ \A s \in LaunchedCalls : calls[s].pc = "ok" )
           => /\ req'.resp = OkResponse(req.query, calls["current"].results)
              /\ \E t \in bg' \ bg : t.id = nreq ]_vars

C5_WriteFailedAfterResponse ==
    /\ req.pc = "done"
    /\ req.resp.status = 200
    /\ \A t \in bg : t.id # nreq
    /\ "" \notin DOMAIN cache
    /\ req.page # req.previous_page

(* C6: a key written back by a resolver that missed stays in the cache     *)
(* until the store drops it, and a resolver call for such a key whose read *)
(* does not fail is a hit that neither aggregates nor writes.              *)
C6_WriteBackThenHit ==
    /\ \A k \in fresh : k \in DOMAIN cache
    /\ \A s \in LaunchedCalls :
          LET c == calls[s]
          IN  (c.warm /\ c.pc # "read" /\ c.read # "error")
              => /\ c.read = "hit"
                 /\ c.pc = "ok"
                 /\ c.aggs = 0
                 /\ c.writes = 0

C6_SecondCallHits ==
    \E s \in LaunchedCalls :
        /\ calls[s].warm
        /\ calls[s].read = "hit"
        /\ calls[s].results.disallowed

(* C7: below safe search level 4 a resolver call never consults the        *)
(* blocklist, whether it hits or misses the cache.                         *)
C7_NoBlocklistBelowStrict ==
    \A s \in LaunchedCalls :
        req.settings.safe_search_level < 4
            => calls[s].filter_checks = 0 /\ calls[s].gate = ""

C7_LowLevelMissResolved ==
    \E s \in LaunchedCalls :
        /\ req.settings.safe_search_level < 4
        /\ calls[s].read = "miss"
        /\ calls[s].pc = "ok"

(* C8: get_safesearch_level gives the server default for a url level >= 3, *)
(* the url level itself when it is < 3, and without a url level the stored *)
(* level when there is one and the server default otherwise.               *)
C8_SafeSearchResolver ==
    lvl.done =>
        /\ lvl.out \in Levels
        /\ IF lvl.url_level # NoneV
           THEN IF lvl.url_level[1] >= 3
                THEN lvl.out = lvl.config_level
                ELSE lvl.out = lvl.url_level[1]
           ELSE IF lvl.cookie_level # NoneV
                THEN lvl.out = lvl.cookie_level[1]
                ELSE lvl.out = lvl.config_level

C8_UrlLevelThreeOverridden ==
    /\ lvl.done
    /\ lvl.url_level = Some(3)
    /\ lvl.cookie_level = Some(2)
    /\ lvl.config_level = 1
    /\ lvl.out = 1

C10_OneReadOneWriteOneAggregate ==
    \A s \in LaunchedCalls :
        /\ calls[s].reads = 1
        /\ calls[s].writes <= 1
        /\ calls[s].aggs <= 1

C10_WriteFailsAfterAggregate ==
    \E s \in LaunchedCalls :
        /\ calls[s].pc = "err"
        /\ calls[s].err = "CacheError"
        /\ calls[s].aggs = 1
        /\ calls[s].writes = 1
        /\ calls[s].reads = 1

(* C11: a resolver call whose cache read failed goes on exactly as after a *)
(* miss: the gate at level 4, then the engine check, aggregation and the   *)
(* write-back; when it fails, the failure is that of the blocklist, of the *)
(* aggregator or of its own cache write, never that of the read.           *)
C11_ReadErrorIsMiss ==
    \A s \in LaunchedCalls :
        LET c == calls[s]
        IN  c.read = "error"
            => /\ c.path \in {"", "disallowed", "no_engines", "aggregated"}
               /\ c.filter_checks =
                     (IF req.settings.safe_search_level = 4 THEN 1 ELSE 0)
               /\ c.pc \in {"aggregate", "write", "ok", "err"}
               /\ c.pc = "err" =>
                     \/ c.err = "FilterRuleError" /\ c.gate = "err"
                     \/ c.err = "UpstreamError" /\ c.aggs = 1 /\ c.writes = 0
                     \/ c.err = "CacheError" /\ c.writes = 1

C11_ReadFailedThenAggregated ==
    \E s \in LaunchedCalls :
        /\ calls[s].read = "error"
        /\ calls[s].pc = "ok"
        /\ calls[s].path = "aggregated"
        /\ req.pc = "done"
        /\ req.resp.status = 200

(* C12: a resolver call that missed returns a bundle only when its own     *)
(* cache write succeeded; when that write fails the call fails with a      *)
(* CacheError and no bundle, also after a successful aggregation, and the  *)
(* request it belongs to ends with an error instead of a 200.              *)
C12_SyncWriteFailureIsFatal ==
    /\ \A s \in LaunchedCalls :
          LET c == calls[s]
          IN  /\ (Missed(c) /\ c.pc = "ok")
                    => c.writes = 1 /\ c.key \in DOMAIN cache
              /\ c.err = "CacheError"
                    => c.pc = "err" /\ c.writes = 1 /\ c.results = DefaultResults
    /\ (req.pc = "done" /\ \E s \in LaunchedCalls : calls[s].err = "CacheError")
          => /\ req.resp.status = 500
             /\ req.resp.results = DefaultResults

C12_AggregatedThenWriteFailed ==
    /\ req.pc = "done"
    /\ req.resp.status = 500
    /\ req.resp.error.kind = "CacheError"
    /\ req.resp.error.slot \in Slots
    /\ calls[req.resp.error.slot].path = "aggregated"
    /\ calls[req.resp.error.slot].aggs = 1

(* C13 as claimed: a blocklist with a line that does not compile fails the *)
(* check for every query, wherever that line stands.                       *)
C13_MalformedLineAlwaysFails ==
    (chk.done /\ IsSome(chk.file)
       /\ \E i \in DOMAIN Unwrap(chk.file) : ~RegexCompiles(Unwrap(chk.file)[i]))
        => chk.out = "err"

(* C13 as amended: the check fails when the file cannot be opened or when  *)
(* a line that does not compile stands before every line that matches the  *)
(* query; it answers true when a matching line stands before every line    *)
(* that does not compile, and false when every line compiles and none      *)
(* matches.  With lines that all compile the answer is the same in every   *)
(* order of the lines.                                                     *)
C13_FailsIffMalformedBeforeFirstMatch ==
    chk.done =>
        IF ~IsSome(chk.file) THEN chk.out = "err"
        ELSE LET lines == Unwrap(chk.file)
                 bad == { i \in DOMAIN lines : ~RegexCompiles(lines[i]) }
                 hit == { i \in DOMAIN lines :
                            RegexCompiles(lines[i]) /\ RegexIsMatch(lines[i], chk.query) }
             IN  /\ chk.out \in {"err", "true", "false"}
                 /\ chk.out = "err" <=> \E i \in bad : \A j \in hit : i < j
                 /\ chk.out = "true" <=> \E j \in hit : \A i \in bad : j < i
                 /\ chk.out = "false" <=> (bad = {} /\ hit = {})

C13_MalformedAfterMatchUnseen ==
    /\ chk.done
    /\ chk.file = Some(<<"xyz", "b.d", "(">>)
    /\ chk.query = "bad"
    /\ chk.out = "true"

(* C14: a request without a query, or with an empty or blank one, is       *)
(* answered with the 307 redirect at once: the step that receives it       *)
(* starts no resolver call (so no cache read, blocklist check, aggregation *)
(* or cache write), leaves the cache as it is and schedules no background  *)
(* task; and only such requests are redirected.                            *)
C14_EmptyQueryRedirects ==
    [][ (req.pc = "idle" /\ req'.pc # "idle"
           /\ req'.resp.error.kind # "QueryParseError")
        => /\ (req'.query \notin Queries) <=> (req'.resp = Redirect)
           /\ (req'.query \notin Queries)
                 => /\ req'.pc = "done"
                    /\ \A s \in Slots : calls'[s] = UnusedCall
                    /\ cache' = cache
                    /\ bg' = bg
                    /\ fresh' = fresh ]_vars

C14_BlankQueryRedirected ==
    /\ req.pc = "done"
    /\ req.query = "  "
    /\ req.resp.status = 307
    /\ cache # <<>>
    /\ LaunchedCalls = {}

(* C15: the key array and the bundle array handed to the background write  *)
(* of a request have the same length, and each position of them holds the  *)
(* key and the bundle returned by one of the request's own resolver calls. *)
C15_BatchPairsAreResolutions ==
    req.pc = "done" =>
        \A t \in bg :
            t.id = nreq =>
                /\ Len(t.keys) = Len(t.results)
                /\ \A i \in DOMAIN t.keys :
                      \E s \in LaunchedCalls :
                          /\ t.keys[i] = calls[s].key
                          /\ t.results[i] = calls[s].results

(* C16: the bundle a resolver call returns, on a hit as well as on a miss, *)
(* carries the effective safe search level of the call's settings.         *)
C16_ReturnedLevelIsEffective ==
    \A s \in LaunchedCalls :
        calls[s].pc = "ok"
            => calls[s].results.safe_search_level = req.settings.safe_search_level

(* C17: a resolver call that missed builds the disallowed bundle only at   *)
(* level 4 for a query that matches a blocklist rule; at level 4 a query   *)
(* that matches no rule goes on to the engine check.                       *)
C17_DisallowedOnlyOnMatch ==
    \A s \in LaunchedCalls :
        LET c == calls[s]
        IN  /\ (Missed(c) /\ c.path = "disallowed")
                  => req.settings.safe_search_level = 4 /\ c.gate = "true"
            /\ (Missed(c) /\ req.settings.safe_search_level = 4 /\ c.gate = "false")
                  => c.path \in {"no_engines", "aggregated"}

(* C18: the step in which a resolver call hits the cache ends the call     *)
(* with the stored bundle as it is, under the key computed for the call's  *)
(* query, page, level and engines; the call has then neither consulted the *)
(* blocklist nor aggregated nor written, and the step leaves the cache and *)
(* the background tasks as they were.                                      *)
C18_HitReturnsCachedUnchanged ==
    [][ \A s \in Slots :
          (calls[s].pc = "read" /\ calls'[s].read = "hit")
          => /\ calls'[s].pc = "ok"
             /\ calls[s].key = CacheKey(req.query, calls[s].page,
                                        req.settings.safe_search_level,
                                        req.settings.engines)
             /\ calls'[s].key = calls[s].key
             /\ calls[s].key \in DOMAIN cache
             /\ calls'[s].results = cache[calls[s].key]
             /\ calls'[s].reads = 1
             /\ calls'[s].writes = 0
             /\ calls'[s].aggs = 0
             /\ calls'[s].filter_checks = 0
             /\ cache' = cache
             /\ bg' = bg ]_vars

C18_HitWithStoredLevel ==
    \E s \in LaunchedCalls :
        /\ calls[s].read = "hit"
        /\ calls[s].pc = "ok"
        /\ calls[s].key \in DOMAIN cache
        /\ calls[s].results = cache[calls[s].key]
        /\ calls[s].results.results # <<>>
        /\ calls[s].results.safe_search_level # req.settings.safe_search_level

(* The bundles a resolution of exactly (query, page, level, engines) can   *)
(* write to the cache: as built on a miss, or stamped with the level.      *)
ResolvedFor(t) ==
    LET built ==
            (IF t.safe_search = 4 THEN {SetDisallowed(DefaultResults)} ELSE {})
            \cup
            (IF t.engines = <<>>
             THEN {Normalise(SetNoEnginesSelected(DefaultResults))}
             ELSE { Normalise(o.results) :
                      o \in { x \in AggregateOutcomes(t.query, t.page,
                                                       EngineHandlers(t.engines),
                                                       t.safe_search) : x.ok } })
    IN  built \cup { SetSafeSearchLevel(b, t.safe_search) : b \in built }

CallTuple(s) ==
    ResultEntry(req.query, calls[s].page, req.settings.safe_search_level,
                req.settings.engines)

(* C19: the cache entry under the key of a resolver call's (query, page,   *)
(* level, engines) holds a bundle that a resolution of exactly that tuple  *)
(* produces, and so does the bundle the call gets on a hit.                *)
C19_EntriesBelongToTheirKey ==
    \A s \in LaunchedCalls :
        /\ calls[s].key \in DOMAIN cache
              => cache[calls[s].key] \in ResolvedFor(CallTuple(s))
        /\ calls[s].read = "hit"
              => calls[s].results \in ResolvedFor(CallTuple(s))

(* C20: the bundle a resolver call builds on a miss through aggregation or *)
(* through the no-engines path, as it is written to the cache and as it is *)
(* returned, is marked filtered when it has no per-engine error, no result *)
(* and no_engines_selected false, and is never marked filtered when        *)
(* no_engines_selected is true.                                            *)
C20_EmptyBundleMarkedFiltered ==
    \A s \in LaunchedCalls :
        LET c == calls[s]
            r == c.results
        IN  (c.path \in {"aggregated", "no_engines"} /\ c.pc \in {"write", "ok"})
            => /\ (r.engine_errors_info = <<>> /\ r.results = <<>>
                      /\ ~r.no_engines_selected) => r.filtered
               /\ r.no_engines_selected => ~r.filtered
               /\ c.path = "no_engines" => r.no_engines_selected

C20_EmptyAggregateFiltered ==
    \E s \in LaunchedCalls :
        /\ calls[s].path = "aggregated"
        /\ calls[s].pc = "ok"
        /\ calls[s].results.results = <<>>
        /\ calls[s].results.engine_errors_info = <<>>
        /\ calls[s].results.filtered
        /\ calls[s].key \in DOMAIN cache
        /\ cache[calls[s].key].filtered

====
